---------------------------- MODULE Spec2Model ----------------------------
(***************************************************************************)
(* Model of the build orchestration and the diagnostic extraction of       *)
(* src/src/SwiftTools.ts (buildPackage, its stdout-data and exit           *)
(* callbacks, dumpDiagnostics) together with the caller in                 *)
(* src/src/clientMain.ts (buildSPMPackage).                                *)
(*                                                                         *)
(* A JavaScript string is a sequence of one-character strings, so that     *)
(* split(":"), split("\n"), trim() and length are computed, not assumed.   *)
(* A JavaScript number is a record [nan, val]: Number() of a field that is *)
(* not numeric is NaN, and NaN propagates through - and +.                 *)
(***************************************************************************)
EXTENDS Integers, Sequences, FiniteSets, TLC

VARIABLES
    stdout,                 \* SwiftTools.ts:16, the module-level buffer
    procs,                  \* the build processes spawned so far
    diagnosticCollection,   \* clientMain.ts:35, uri string -> diagnostics shown
    status,                 \* what the build status item shows
    last                    \* the callback that ran last, with what it saw

vars == <<stdout, procs, diagnosticCollection, status, last>>

-----------------------------------------------------------------------------
(* Bounds *)

\* number of buildPackage calls in one behaviour
MaxBuilds == 2
\* number of items (noise lines, diagnostic blocks) in one extracted text
MaxItems == 3

-----------------------------------------------------------------------------
(* Characters and strings *)

NL == "\n"
Colon == ":"
Whitespace == {" ", "\t", NL}
Digits == {"0", "1", "2", "3", "4", "5", "6", "7", "8", "9"}

DigitVal(c) ==
    CASE c = "0" -> 0 [] c = "1" -> 1 [] c = "2" -> 2 [] c = "3" -> 3
      [] c = "4" -> 4 [] c = "5" -> 5 [] c = "6" -> 6 [] c = "7" -> 7
      [] c = "8" -> 8 [] c = "9" -> 9

\* String.prototype.split with a one-character separator
RECURSIVE Split(_, _)
Split(s, sep) ==
    IF \A i \in 1..Len(s) : s[i] # sep
    THEN <<s>>
    ELSE LET i == CHOOSE k \in 1..Len(s) :
                      s[k] = sep /\ \A j \in 1..(k - 1) : s[j] # sep
         IN  <<SubSeq(s, 1, i - 1)>> \o Split(SubSeq(s, i + 1, Len(s)), sep)

\* String.prototype.trim
RECURSIVE TrimLeft(_)
TrimLeft(s) ==
    IF s # <<>> /\ Head(s) \in Whitespace THEN TrimLeft(Tail(s)) ELSE s

RECURSIVE TrimRight(_)
TrimRight(s) ==
    IF s # <<>> /\ s[Len(s)] \in Whitespace
    THEN TrimRight(SubSeq(s, 1, Len(s) - 1))
    ELSE s

Trim(s) == TrimRight(TrimLeft(s))

\* JavaScript numbers
NaN == [nan |-> TRUE, val |-> 0]
Num(v) == [nan |-> FALSE, val |-> v]
Minus(a, b) == IF a.nan \/ b.nan THEN NaN ELSE Num(a.val - b.val)
Plus(a, b) == IF a.nan \/ b.nan THEN NaN ELSE Num(a.val + b.val)

RECURSIVE DecValue(_)
DecValue(s) ==
    IF s = <<>> THEN 0
    ELSE 10 * DecValue(SubSeq(s, 1, Len(s) - 1)) + DigitVal(s[Len(s)])

\* Number(string): surrounding whitespace is ignored, the empty string is 0,
\* a run of decimal digits is its value, anything else over this alphabet NaN
Number(s) ==
    LET t == Trim(s)
    IN  IF t = <<>> THEN Num(0)
        ELSE IF \A i \in 1..Len(t) : t[i] \in Digits THEN Num(DecValue(t))
        ELSE NaN

-----------------------------------------------------------------------------
(* dumpDiagnostics: the line classifier *)

ErrorTok == <<"e", "r", "r", "o", "r">>
WarningTok == <<"w", "a", "r", "n", "i", "n", "g">>
NoteTok == <<"n", "o", "t", "e">>

\* SwiftTools.ts:59-67 (sa[3] of the source is sa[4] here: sequences start at 1)
IsDiagStartLine(line) ==
    LET sa == Split(line, Colon)
    IN  IF Len(sa) > 4
        THEN LET sev == Trim(sa[4])
             IN  sev = ErrorTok \/ sev = WarningTok \/ sev = NoteTok
        ELSE FALSE

\* SwiftTools.ts:124-135
ToVSCodeSeverity(sev) ==
    CASE sev = ErrorTok -> "Error"
      [] sev = WarningTok -> "Warning"
      [] sev = NoteTok -> "Information"
      [] OTHER -> "Information"

-----------------------------------------------------------------------------
(* dumpDiagnostics: the block segmentation loop *)

\* a value of the source's oneDiag / an element of diags: an array of lines,
\* or undefined
Undefined == [defined |-> FALSE, lines |-> <<>>]
Block(ls) == [defined |-> TRUE, lines |-> ls]

\* the state of the loop before its first iteration, SwiftTools.ts:56,101
SegInit == [hasDiagStart |-> FALSE, oneDiag |-> Undefined, diags |-> <<>>]

\* one iteration of the loop, SwiftTools.ts:103-111
SegStep(st, line) ==
    LET opened ==
            IF IsDiagStartLine(line)
            THEN [hasDiagStart |-> TRUE,
                  oneDiag |-> Block(<<>>),
                  diags |-> IF st.oneDiag.defined
                            THEN Append(st.diags, st.oneDiag)
                            ELSE st.diags]
            ELSE st
    IN  IF opened.hasDiagStart
        THEN [opened EXCEPT !.oneDiag = Block(Append(opened.oneDiag.lines, line))]
        ELSE opened

RECURSIVE SegLoop(_, _, _)
SegLoop(st, lines, i) ==
    IF i > Len(lines) THEN st ELSE SegLoop(SegStep(st, lines[i]), lines, i + 1)

\* SwiftTools.ts:100-113: the loop, then the push of the last oneDiag
Segment(lines) ==
    LET st == SegLoop(SegInit, lines, 1)
    IN  Append(st.diags, st.oneDiag)

-----------------------------------------------------------------------------
(* dumpDiagnostics: the diagnostic builder *)

FilePrefix == <<"f", "i", "l", "e", ":", "/", "/">>

\* Uri.file(path).toString(), SwiftTools.ts:74: the file scheme, and a path
\* made absolute by a leading slash (paths here need no percent-encoding)
UriFileToString(path) ==
    FilePrefix \o (IF path = <<>> \/ Head(path) # "/" THEN <<"/">> \o path ELSE path)

\* Uri.parse(file), SwiftTools.ts:120, of a string made by UriFileToString
UriParse(file) ==
    [scheme |-> SubSeq(file, 1, 4),
     path |-> SubSeq(file, Len(FilePrefix) + 1, Len(file))]

\* SwiftTools.ts:76 without the shift to a 0-based line
DiagLineNoShift(sa) == Number(sa[2])

\* SwiftTools.ts:76
DiagLine(sa) == Minus(Number(sa[2]), Num(1))

\* SwiftTools.ts:77
DiagStartColumn(sa) == Minus(Number(sa[3]), Num(1))

\* SwiftTools.ts:79
DiagMessage(sa) == sa[5]

\* SwiftTools.ts:80
DiagEndColumn(startColumn, line2) == Plus(startColumn, Num(Len(Trim(line2))))

\* SwiftTools.ts:92-97, with the earlier diagnostics of the file dropped
PushDiagnosticOverwrite(map, file, diagnostic) ==
    IF file \in DOMAIN map
    THEN [map EXCEPT ![file] = <<diagnostic>>]
    ELSE map @@ (file :> <<diagnostic>>)

\* SwiftTools.ts:92-97
PushDiagnostic(map, file, diagnostic) ==
    IF file \in DOMAIN map
    THEN [map EXCEPT ![file] = Append(@, diagnostic)]
    ELSE map @@ (file :> <<diagnostic>>)

\* does makeDiagnostic throw on this value?  oneDiag[0] of undefined, and
\* line2.trim() when oneDiag[2] is undefined, are TypeErrors (SwiftTools.ts:70-80)
MakeDiagnosticThrows(oneDiag) == ~oneDiag.defined \/ Len(oneDiag.lines) < 3

\* the Diagnostic that makeDiagnostic builds, SwiftTools.ts:70-91
NewDiagnostic(oneDiag) ==
    LET sa == Split(oneDiag.lines[1], Colon)
        startColumn == DiagStartColumn(sa)
    IN  [line |-> DiagLine(sa),
         startColumn |-> startColumn,
         endColumn |-> DiagEndColumn(startColumn, oneDiag.lines[3]),
         severity |-> ToVSCodeSeverity(Trim(sa[4])),
         message |-> DiagMessage(sa)]

\* the key makeDiagnostic files the Diagnostic under, SwiftTools.ts:74
DiagFile(oneDiag) == UriFileToString(Split(oneDiag.lines[1], Colon)[1])

\* SwiftTools.ts:69-98, when it does not throw: acc.map is diagnosticMap, and
\* acc.built lists the Diagnostic objects constructed so far with their keys
MakeDiagnostic(oneDiag, acc) ==
    LET file == DiagFile(oneDiag)
        diagnostic == NewDiagnostic(oneDiag)
    IN  [acc EXCEPT !.map = PushDiagnostic(@, file, diagnostic),
                    !.built = Append(@, [file |-> file, diag |-> diagnostic])]

\* the forEach of SwiftTools.ts:114 with the test of line 115 left out
HandedAll(diags) == diags

\* the elements of diags that the forEach of SwiftTools.ts:114-118 hands to
\* makeDiagnostic if none throws: those that pass `if (d)`
Handed(diags) == SelectSeq(diags, LAMBDA d : d.defined)

EmptyMap == [k \in {} |-> <<>>]

\* SwiftTools.ts:114-118: the callback runs per element until one throws
RECURSIVE ForEachDiag(_, _, _)
ForEachDiag(ds, i, acc) ==
    IF i > Len(ds) THEN acc
    ELSE IF MakeDiagnosticThrows(ds[i])
         THEN [acc EXCEPT !.threw = TRUE, !.handed = Append(@, ds[i])]
         ELSE ForEachDiag(ds, i + 1,
                          MakeDiagnostic(ds[i], [acc EXCEPT !.handed = Append(@, ds[i])]))

\* SwiftTools.ts:119-121: diagnosticCollection.set per key of diagnosticMap
Publish(collection, diagnosticMap) ==
    LET keys == {UriParse(f) : f \in DOMAIN diagnosticMap}
    IN  [u \in (DOMAIN collection) \cup keys |->
            IF u \in keys
            THEN diagnosticMap[CHOOSE f \in DOMAIN diagnosticMap : UriParse(f) = u]
            ELSE collection[u]]

\* SwiftTools.ts:54-122 run on the buffer `text` with `collection` displayed
DumpDiagnostics(text, collection) ==
    LET lines == Split(text, NL)
        diags == Segment(lines)
        run == ForEachDiag(Handed(diags), 1,
                           [map |-> EmptyMap, threw |-> FALSE, handed |-> <<>>,
                            built |-> <<>>])
    IN  [text |-> text,
         lines |-> lines,
         diags |-> diags,
         handed |-> run.handed,
         built |-> run.built,
         diagnosticMap |-> run.map,
         threw |-> run.threw,
         collection |-> IF run.threw THEN collection
                        ELSE Publish(collection, run.map)]

-----------------------------------------------------------------------------
(* Compiler output the model draws from.  Line and column fields are the    *)
(* 1-based positions a compiler prints, or not numbers at all.              *)

Header(file, l, c, sev, msg) ==
    file \o <<Colon>> \o l \o <<Colon>> \o c \o <<Colon, " ">> \o sev
         \o <<Colon>> \o msg

HdrA1 == Header(<<"/", "a">>, <<"1">>, <<"2">>, ErrorTok, <<" ", "m">>)
HdrA2 == Header(<<"/", "a">>, <<"3">>, <<"1">>, WarningTok, <<" ", "w", ":", "v">>)
HdrB == Header(<<"/", "b">>, <<"1", "2">>, <<"4">>, NoteTok, <<" ", "n">>)
HdrRel == Header(<<"a">>, <<"2">>, <<"2">>, ErrorTok, <<" ", "r">>)
HdrBad == Header(<<"/", "a">>, <<"x">>, <<"y">>, ErrorTok, <<" ", "b", "a", "d">>)
Headers == {HdrA1, HdrA2, HdrB, HdrRel, HdrBad}

SrcLine == <<" ", " ", "l", "e", "t">>
CaretLine == <<" ", " ", "^", "~", "~", " ">>
NoiseLine == <<"a", ":", "b", ":", "c">>
InfoLine == <<"x", ":", "1", ":", "2", ":", "i", "n", "f", "o", ":", "z">>
EmptyLine == <<>>

\* an item is a run of lines: a line that opens no block, or a header with
\* zero, one or two lines after it
Items ==
    {<<NoiseLine>>, <<InfoLine>>, <<EmptyLine>>}
      \cup {<<h>> : h \in {HdrA1, HdrA2, HdrBad}}
      \cup {<<HdrA1, SrcLine>>}
      \cup {<<h, SrcLine, CaretLine>> : h \in Headers}

RECURSIVE Flatten(_)
Flatten(ss) == IF ss = <<>> THEN <<>> ELSE Head(ss) \o Flatten(Tail(ss))

RECURSIVE Join(_, _)
Join(ls, sep) ==
    IF ls = <<>> THEN <<>>
    ELSE IF Len(ls) = 1 THEN ls[1]
    ELSE ls[1] \o <<sep>> \o Join(Tail(ls), sep)

ItemSeqs == UNION {[1..n -> Items] : n \in 0..MaxItems}

\* the texts a build may have left in the buffer when its process exits
Texts == {Join(Flatten(is), NL) : is \in ItemSeqs}

WithNL(l) == l \o <<NL>>

\* what a build process writes to its stdout, as the chunks of its data events
Scripts ==
    { <<SubSeq(HdrA1, 1, 5),
        WithNL(SubSeq(HdrA1, 6, Len(HdrA1))) \o WithNL(SrcLine) \o WithNL(CaretLine)>>,
      <<WithNL(HdrB) \o WithNL(SrcLine) \o WithNL(CaretLine)>>,
      <<WithNL(HdrA2)>>,
      <<>> }

ExitCodes == {0, 1}

-----------------------------------------------------------------------------
(* State *)

NoRun ==
    [text |-> <<>>, lines |-> <<>>, diags |-> <<>>, handed |-> <<>>, built |-> <<>>,
     diagnosticMap |-> EmptyMap, threw |-> FALSE, collection |-> EmptyMap]

NoEvent == [kind |-> "none", proc |-> 0, code |-> 0, before |-> EmptyMap, run |-> NoRun]

ProcIds == 1..Len(procs)

\* the extension is active and no build was started yet (the buffer is
\* declared without a value and is first read after buildPackage assigned it)
Init ==
    /\ stdout = <<>>
    /\ procs = <<>>
    /\ diagnosticCollection = EmptyMap
    /\ status = "none"
    /\ last = NoEvent

\* a build whose process has written `text` and has not exited yet
InitExtract ==
    /\ stdout \in Texts
    /\ procs = <<[pending |-> <<>>, emitted |-> stdout, exited |-> FALSE]>>
    /\ diagnosticCollection = EmptyMap
    /\ status = "building"
    /\ last = [NoEvent EXCEPT !.kind = "data", !.proc = 1]

-----------------------------------------------------------------------------
(* Operations.  The stderr "data" and the "error" callbacks                 *)
(* (SwiftTools.ts:25-38) write to the output channel and show a message;   *)
(* they touch none of the variables above and are left out.                *)

\* clientMain.ts:217-227 buildSPMPackage in an SPM project: the status item
\* starts its animation (clientMain.ts:275-285), then SwiftTools.ts:18-52
\* buildPackage empties the buffer and spawns the process
BuildPackage(script) ==
    /\ Len(procs) < MaxBuilds
    /\ status' = "building"
    /\ stdout' = <<>>
    /\ procs' = Append(procs, [pending |-> script, emitted |-> <<>>, exited |-> FALSE])
    /\ last' = [NoEvent EXCEPT !.kind = "build", !.proc = Len(procs) + 1]
    /\ UNCHANGED diagnosticCollection

\* SwiftTools.ts:21-24, the stdout "data" callback of process p
StdoutData(p) ==
    /\ ~procs[p].exited
    /\ procs[p].pending # <<>>
    /\ stdout' = stdout \o Head(procs[p].pending)
    /\ procs' = [procs EXCEPT ![p].pending = Tail(@),
                              ![p].emitted = @ \o Head(procs[p].pending)]
    /\ last' = [NoEvent EXCEPT !.kind = "data", !.proc = p]
    /\ UNCHANGED <<diagnosticCollection, status>>

\* the exit callback without diagnosticCollection.clear()
KeepCollection(collection) == collection

\* SwiftTools.ts:43 diagnosticCollection.clear()
ClearCollection(collection) == EmptyMap

\* SwiftTools.ts:40-51, the "exit" callback of process p, which has written
\* all its output; an exception of dumpDiagnostics ends the callback
Exit(p, code) ==
    /\ ~procs[p].exited
    /\ procs[p].pending = <<>>
    /\ LET run == DumpDiagnostics(stdout, ClearCollection(diagnosticCollection))
       IN  /\ diagnosticCollection' = run.collection
           /\ status' = IF run.threw THEN status
                        ELSE IF code # 0 THEN "failed" ELSE "succeeded"
           /\ last' = [kind |-> "exit", proc |-> p, code |-> code,
                       before |-> diagnosticCollection, run |-> run]
    /\ procs' = [procs EXCEPT ![p].exited = TRUE]
    /\ UNCHANGED stdout

Next ==
    \/ \E script \in Scripts : BuildPackage(script)
    \/ \E p \in ProcIds : StdoutData(p)
    \/ \E p \in ProcIds, code \in ExitCodes : Exit(p, code)

Spec == Init /\ [][Next]_vars

NextExtract == \E p \in ProcIds, code \in ExitCodes : Exit(p, code)

\* dumpDiagnostics applied, by the exit callback, to every text of Texts
SpecExtract == InitExtract /\ [][NextExtract]_vars

-----------------------------------------------------------------------------
(* The vocabulary of the claims, stated on the text itself: fields are      *)
(* found by counting colons, blocks by the positions of block-start lines.  *)

Ran == last.kind = "exit"
R == last.run

ColonsOf(line) == {i \in 1..Len(line) : line[i] = Colon}

NthOf(S, n) == CHOOSE i \in S : Cardinality({j \in S : j < i}) = n - 1

\* the text between the k-th and the (k+1)-th colon of a line
FieldOf(line, k) ==
    SubSeq(line, NthOf(ColonsOf(line), k) + 1, NthOf(ColonsOf(line), k + 1) - 1)

\* the text up to the first colon of a line
LocationOf(line) == SubSeq(line, 1, NthOf(ColonsOf(line), 1) - 1)

\* the text after the n-th colon of a line
AfterColon(line, n) == SubSeq(line, NthOf(ColonsOf(line), n) + 1, Len(line))

BlockStart(line) ==
    /\ Cardinality(ColonsOf(line)) >= 4
    /\ Trim(FieldOf(line, 3)) \in {ErrorTok, WarningTok, NoteTok}

StartIdx(lines) == {i \in 1..Len(lines) : BlockStart(lines[i])}

\* the blocks of a line sequence: from each block-start line up to the line
\* before the next one, or to the end
BlocksOf(lines) ==
    LET S == StartIdx(lines)
    IN  [k \in 1..Cardinality(S) |->
            Block(SubSeq(lines, NthOf(S, k),
                         IF k < Cardinality(S) THEN NthOf(S, k + 1) - 1
                         ELSE Len(lines)))]

IsInteger(f) == f # <<>> /\ \A i \in 1..Len(f) : f[i] \in Digits

IntegerFields(header) == IsInteger(FieldOf(header, 1)) /\ IsInteger(FieldOf(header, 2))

\* the diagnostics built from the blocks whose key is `file`, in input order
BuiltFor(file) ==
    LET sel == SelectSeq(R.built, LAMBDA b : b.file = file)
    IN  [i \in 1..Len(sel) |-> sel[i].diag]

-----------------------------------------------------------------------------
(* Claims *)

\* C1: each time dumpDiagnostics runs on a process exit, the text it parses
\* is exactly the complete stdout emitted by the exiting process, with no
\* chunk missing and no chunk of another build included.
C1_ParsesOwnOutput == Ran => R.text = procs[last.proc].emitted

\* C2: when one block's header has a non-integer line or column field and the
\* other blocks are well-formed, no diagnostic is built for the malformed
\* block and every well-formed block still yields its diagnostic.
C2_MalformedSkipped ==
    LET blocks == BlocksOf(R.lines)
        bad == {k \in 1..Len(blocks) : ~IntegerFields(blocks[k].lines[1])}
        good == (1..Len(blocks)) \ bad
    IN  (Ran /\ Cardinality(bad) = 1 /\ \A k \in good : Len(blocks[k].lines) >= 3)
        => /\ \A i \in 1..Len(R.built) : R.handed[i] \notin {blocks[k] : k \in bad}
           /\ Len(R.built) = Cardinality(good)
           /\ \A f \in DOMAIN R.diagnosticMap :
                 Len(R.diagnosticMap[f]) =
                     Cardinality({k \in good : UriFileToString(LocationOf(blocks[k].lines[1])) = f})

\* C3: a well-formed block with fewer than three lines makes the extraction
\* complete with one diagnostic for it whose endColumn equals its startColumn.
C3_ShortBlockZeroWidth ==
    LET blocks == BlocksOf(R.lines)
    IN  (Ran /\ \A k \in 1..Len(blocks) : IntegerFields(blocks[k].lines[1]))
        => \A k \in 1..Len(blocks) :
              Len(blocks[k].lines) < 3
              => /\ ~R.threw
                 /\ Len(R.built) = Len(blocks)
                 /\ R.built[k].diag.endColumn = R.built[k].diag.startColumn

\* C4: the message of the diagnostic built from a header is the entire text
\* after the fourth ':' of the header.
C4_MessageIsRemainder ==
    Ran => \A i \in 1..Len(R.built) :
              R.built[i].diag.message = AfterColon(R.handed[i].lines[1], 4)

\* C5: the diagnostics whose headers name the same location are all stored
\* under one key of the output mapping, none overwritten, in the order of
\* their header lines in the input; a completed extraction publishes exactly
\* these sequences.
C5_GroupedInOrder ==
    Ran => /\ \A i \in 1..Len(R.built) :
                /\ R.handed[i].lines[1] = R.lines[NthOf(StartIdx(R.lines), i)]
                /\ R.built[i].file = UriFileToString(LocationOf(R.handed[i].lines[1]))
                /\ R.built[i].file \in DOMAIN R.diagnosticMap
           /\ \A f \in DOMAIN R.diagnosticMap : R.diagnosticMap[f] = BuiltFor(f)
           /\ (~R.threw =>
                /\ DOMAIN diagnosticCollection = {UriParse(f) : f \in DOMAIN R.diagnosticMap}
                /\ \A f \in DOMAIN R.diagnosticMap :
                      diagnosticCollection[UriParse(f)] = BuiltFor(f))

\* C5 witness: a completed extraction with two keys, one of them holding two
\* different diagnostics, one from a relative and one from an absolute path
C5_Witness ==
    /\ Ran /\ ~R.threw
    /\ Cardinality(DOMAIN R.diagnosticMap) = 2
    /\ \E f \in DOMAIN R.diagnosticMap :
          /\ Len(R.diagnosticMap[f]) = 2
          /\ R.diagnosticMap[f][1] # R.diagnosticMap[f][2]
          /\ \E i, j \in 1..Len(R.built) :
                /\ i < j /\ R.built[i].file = f /\ R.built[j].file = f
                /\ LocationOf(R.handed[i].lines[1]) # LocationOf(R.handed[j].lines[1])

\* C6: when no line of the input satisfies the block-start predicate, the
\* extraction completes without error, builds an empty mapping, publishes
\* nothing, and hands no block to the diagnostic builder.
C6_NoStartNoDiagnostics ==
    (Ran /\ StartIdx(R.lines) = {})
    => /\ ~R.threw
       /\ R.handed = <<>>
       /\ R.built = <<>>
       /\ R.diagnosticMap = EmptyMap
       /\ diagnosticCollection = EmptyMap

\* C6 witness: an extraction of several lines, one with more than four
\* colon-separated fields, none of them a block start
C6_Witness ==
    /\ Ran /\ StartIdx(R.lines) = {}
    /\ Len(R.lines) >= 3
    /\ \E i \in 1..Len(R.lines) : Cardinality(ColonsOf(R.lines[i])) >= 4

\* C6 witness for the empty string
C6_WitnessEmpty == Ran /\ R.text = <<>> /\ R.lines = <<EmptyLine>>

\* C7: a block with at least three lines and integer line and column fields
\* yields a diagnostic with line = field 1 - 1, startColumn = field 2 - 1 and
\* endColumn - startColumn = the length of the stripped third line.
C7_RangeFromHeader ==
    Ran => \A i \in 1..Len(R.built) :
              LET b == R.handed[i].lines
                  d == R.built[i].diag
              IN  (Len(b) >= 3 /\ IntegerFields(b[1]))
                  => /\ d.line = Num(DecValue(FieldOf(b[1], 1)) - 1)
                     /\ d.startColumn = Num(DecValue(FieldOf(b[1], 2)) - 1)
                     /\ ~d.endColumn.nan
                     /\ d.endColumn.val - d.startColumn.val = Len(Trim(b[3]))
                     /\ d.endColumn.val >= d.startColumn.val

\* C7 witness: a diagnostic built from a header with a two-digit line field
\* and a third line that has whitespace on both sides of its marker
C7_Witness ==
    /\ Ran
    /\ \E i \in 1..Len(R.built) :
          LET b == R.handed[i].lines
          IN  /\ Len(b) >= 3 /\ IntegerFields(b[1])
              /\ Len(FieldOf(b[1], 1)) = 2
              /\ Len(Trim(b[3])) > 0 /\ Len(Trim(b[3])) < Len(b[3])
              /\ R.built[i].diag.endColumn.val > R.built[i].diag.startColumn.val

\* C8: the blocks handed to the diagnostic builder correspond one-to-one and
\* in order to the block-start lines of the input, each running up to the
\* next block-start line or the end, and the last one is always processed.
C8_BlocksHanded == Ran => R.handed = BlocksOf(R.lines)

\* C9: after the exit callback the displayed diagnostics contain only entries
\* produced by that exit's parse; what was displayed before is gone.
C9_Replaced ==
    Ran => \A u \in DOMAIN diagnosticCollection :
              \E f \in DOMAIN R.diagnosticMap :
                  /\ UriParse(f) = u
                  /\ diagnosticCollection[u] = R.diagnosticMap[f]

\* C9 witness: an exit that found diagnostics displayed for one file and left
\* diagnostics displayed for another file only
C9_Witness ==
    /\ Ran
    /\ diagnosticCollection # EmptyMap
    /\ \E u \in DOMAIN last.before : u \notin DOMAIN diagnosticCollection

\* C9 witness: an exit whose parse threw, after diagnostics were displayed
C9_WitnessThrew ==
    Ran /\ R.threw /\ last.before # EmptyMap /\ diagnosticCollection = EmptyMap

\* C10: after the exit callback of a process the build status is failed when
\* the exit code is non-zero and succeeded when it is zero.
C10_StatusUpdated ==
    Ran => status = (IF last.code # 0 THEN "failed" ELSE "succeeded")

=============================================================================
